---- MODULE Spec2Model ----
(***************************************************************************)
(* CartoRewind (src/script.js): two synchronised Leaflet map panels, a      *)
(* historical overlay layer switched by year, mirrored cursor indicators    *)
(* and a fullscreen toggle.                                                 *)
(*                                                                          *)
(* Strings the code takes apart (the page path, the tile URL) are modelled  *)
(* as sequences of tokens, so that split/pop/replace and the template       *)
(* literal are computed and not assumed.  JavaScript property reads         *)
(* (obj[key]) go through Get, which follows the prototype chain of an       *)
(* object literal as the language does.                                     *)
(*                                                                          *)
(* The Leaflet widget is an external collaborator.  What the model takes    *)
(* from it is its documented behaviour at the calls the script makes:       *)
(* setView sets (center, zoom) and synchronously emits 'zoom' (when the     *)
(* zoom changed) and 'move' to the listeners; map.remove() detaches every   *)
(* layer of the map; removeLayer of a layer the map does not hold is a      *)
(* no-op; setUrl rebinds the template of a layer in place.                  *)
(***************************************************************************)
EXTENDS Integers, Sequences, FiniteSets, TLC

VARIABLES
    phase,        \* "unloaded" | "ready" | "aborted": top-level script (217-237)
    currentCity,  \* const currentCity (217)
    hasSelect,    \* the change listener on mapYearSelect is installed (222-230)
    gen,          \* number of initMaps constructions; map1/map2 are generation gen
    widgets,      \* every L.map made so far: [container, live, listeners]
    view,         \* view[m]: (center, zoom) of map m (1 = map1, 2 = map2)
    baseLayer,    \* baseLayer[m]: the base raster layer shown on map m
    histLayer,    \* global histLayer: 0 (null/undefined) or a layer id
    layers,       \* every historical tile layer created so far: id -> [url, map]
    syncing,      \* the shared re-entrancy guard of the current closure (108)
    syncLog,      \* what syncView did while the last map event was handled
    cursorEls,    \* the elements createCursor made that are in the document, by id
    cursor1,      \* global cursor1: 0 or an element id
    cursor2,      \* global cursor2
    nextEl,       \* ids handed out by document.createElement
    lastPointer,  \* offset of the last 'mousemove' the current listeners saw
    warned,       \* console.warn calls made by the last updateHistoricalLayer
    lastCall,     \* the arguments and the layer state at entry of that call
    domLoaded,    \* the DOMContentLoaded listener has run (241)
    fsWired,      \* fullscreenButton && mainContent held when it ran (245)
    fsNotified,   \* fullscreen-change notifications delivered by the host
    timers,       \* pending setTimeout callbacks (250)
    resized,      \* resized[m]: invalidateSize calls made on map m
    lastClick     \* what the last click on the fullscreen button did

vars == <<phase, currentCity, hasSelect, gen, widgets, view, baseLayer, histLayer, layers,
          syncing, syncLog, cursorEls, cursor1, cursor2, nextEl, lastPointer,
          warned, lastCall, domLoaded, fsWired, fsNotified, timers, resized, lastClick>>

mapVars == <<gen, widgets, view, baseLayer, syncing, syncLog>>
layerVars == <<histLayer, layers, warned, lastCall>>
cursorVars == <<cursorEls, cursor1, cursor2, nextEl, lastPointer>>
fsVars == <<domLoaded, fsWired, fsNotified, timers, resized, lastClick>>

(***************************************************************************)
(* Bounds of the model.                                                     *)
(***************************************************************************)
MaxPathLen == 3     \* tokens in location.pathname
MaxPan == 1         \* pan targets: steps north of the city centre
MaxZoomIn == 1      \* zoom targets: levels above the default zoom
MaxOffset == 1      \* pointer offsets and panel origins, in pixels
MaxInits == 2       \* initMaps calls in one page session
MaxLayers == 2      \* historical tile layers created in one page session
MaxFsEvents == 2    \* fullscreen-change notifications in one page session
MaxCallDepth == 3   \* nested listener calls the engine's stack allows

(***************************************************************************)
(* JavaScript values and property reads.                                    *)
(***************************************************************************)
Undefined == "undefined"
Null == "null"

\* Members every object literal inherits from Object.prototype (a sample).
ObjectPrototype ==
    [constructor |-> "function Object() { [native code] }",
     toString    |-> "function toString() { [native code] }"]

\* obj[key]: own property, else inherited property, else undefined.
Get(obj, key) ==
    IF key \in DOMAIN obj THEN obj[key]
    ELSE IF key \in DOMAIN ObjectPrototype THEN ObjectPrototype[key]
    ELSE Undefined

\* ToBoolean on the values the script tests.
Truthy(v) == v \notin {Undefined, Null, ""}

(***************************************************************************)
(* Configuration (7-37).                                                    *)
(***************************************************************************)
\* Coordinates in units of 1e-4 degree.
centerCoords ==
    [munich   |-> <<481351, 115820>>,
     vienna   |-> <<482082, 163738>>,
     enschede |-> <<522215, 68937>>,
     dresden  |-> <<510504, 137373>>]

\* An explicit null marks a year whose tiles are missing (16).
TILE_FOLDER_MAP ==
    [munich   |-> ("1400" :> Null) @@ ("1500" :> Null) @@ ("1600" :> Null)
                  @@ ("1888" :> "muc-1888"),
     vienna   |-> ("1800" :> "vie-1800-folder") @@ ("1833" :> "v_1833"),
     dresden  |-> ("1750" :> "dre-1750-folder") @@ ("1833" :> "d_1833")
                  @@ ("1878" :> "dre-1878-folder"),
     enschede |-> ("1830" :> "ens-1830-folder") @@ ("1900" :> "ens-1900-folder")]

DefaultZoom == 13
DefaultYear == "1888"



(***************************************************************************)
(* City Resolver (197-212).                                                 *)
(***************************************************************************)
PathTokens == {"/", ".html", "munich", "vienna", "dresden", "enschede",
               "index", "about", "constructor"}

\* window.location.pathname: a token sequence that starts with "/".
Paths == {p \in UNION {[1..n -> PathTokens] : n \in 1..MaxPathLen} : p[1] = "/"}

\* pathname.split('/').pop(): what follows the last "/".
LastSegment(p) ==
    LET slashes == {i \in 1..Len(p) : p[i] = "/"}
        last == IF slashes = {} THEN 0
                ELSE CHOOSE i \in slashes : \A j \in slashes : j <= i
    IN SubSeq(p, last + 1, Len(p))

\* s.replace(t, ''): the first occurrence of t removed, the rest kept.
ReplaceFirst(s, t) ==
    LET hits == {i \in 1..Len(s) : s[i] = t}
    IN IF hits = {} THEN s
       ELSE LET k == CHOOSE i \in hits : \A j \in hits : i <= j
            IN SubSeq(s, 1, k - 1) \o SubSeq(s, k + 1, Len(s))

\* The string a token sequence spells, as a property key.
Key(s) ==
    IF Len(s) = 0 THEN ""
    ELSE IF Len(s) = 1 THEN s[1]
    ELSE "(several tokens)"

cityMap ==
    [munich |-> "munich", vienna |-> "vienna", dresden |-> "dresden",
     enschede |-> "enschede", index |-> "munich"] @@ ("" :> "munich")

getCurrentCity(pathname) ==
    LET filename == Key(ReplaceFirst(LastSegment(pathname), ".html"))
        found == Get(cityMap, filename)
    IN IF Truthy(found) THEN found ELSE "munich"

(***************************************************************************)
(* Historical Layer Switcher (161-192).                                     *)
(***************************************************************************)
\* TILE_FOLDER_MAP[city] ? TILE_FOLDER_MAP[city][year] : null (163).  A city
\* that names an inherited member reads a function object, which is truthy
\* and has no own year entries.
LookupFolder(city, year) ==
    IF city \in DOMAIN TILE_FOLDER_MAP THEN Get(TILE_FOLDER_MAP[city], year)
    ELSE IF city \in DOMAIN ObjectPrototype THEN Get(<<>>, year)
    ELSE Null

\* The template with the path of the comment on line 177.
TileUrlMaps(folder) == <<"maps/tiles/", folder, "/{z}/{x}/{y}.png">>

\* `tiles/${folder}/{z}/{x}/{y}.png` (178).
TileUrl(folder) == <<"tiles/", folder, "/{z}/{x}/{y}.png">>

\* map1.removeLayer(layer): detaches it if map m holds it (171).
RemoveLayer(ls, m, id) ==
    [i \in DOMAIN ls |->
        IF i = id /\ ls[i].map = m THEN [ls[i] EXCEPT !.map = 0] ELSE ls[i]]

\* A switcher that builds a new layer for every year that has a folder.
updateHistoricalLayerRecreate(h, ls, m1, city, year) ==
    LET folder == LookupFolder(city, year)
    IN IF ~Truthy(folder)
       THEN [histLayer |-> 0,
             layers |-> IF h # 0 THEN RemoveLayer(ls, m1, h) ELSE ls,
             warned |-> 1]
       ELSE [histLayer |-> Len(ls) + 1,
             layers |-> Append(IF h # 0 THEN RemoveLayer(ls, m1, h) ELSE ls,
                               [url |-> TileUrl(folder), map |-> m1]),
             warned |-> 0]

\* A switcher that clears the handle without map1.removeLayer.
updateHistoricalLayerNoDetach(h, ls, m1, city, year) ==
    LET folder == LookupFolder(city, year)
    IN IF ~Truthy(folder)
       THEN [histLayer |-> 0, layers |-> ls, warned |-> 1]
       ELSE IF h # 0
       THEN [histLayer |-> h,
             layers |-> [ls EXCEPT ![h].url = TileUrl(folder)],
             warned |-> 0]
       ELSE [histLayer |-> Len(ls) + 1,
             layers |-> Append(ls, [url |-> TileUrl(folder), map |-> m1]),
             warned |-> 0]

\* The result of one call, from the handle h, the layers ls and map1 = m1.
updateHistoricalLayer(h, ls, m1, city, year) ==
    LET folder == LookupFolder(city, year)
    IN IF ~Truthy(folder)
       THEN [histLayer |-> 0,
             layers |-> IF h # 0 THEN RemoveLayer(ls, m1, h) ELSE ls,
             warned |-> 1]
       ELSE IF h # 0
       THEN [histLayer |-> h,
             layers |-> [ls EXCEPT ![h].url = TileUrl(folder)],
             warned |-> 0]
       ELSE [histLayer |-> Len(ls) + 1,
             layers |-> Append(ls, [url |-> TileUrl(folder), map |-> m1]),
             warned |-> 0]

\* What the record of a call holds: (city, year), map1 and the layer state at entry.
CallRecord(city, year, m1, h, ls) ==
    [called |-> TRUE, city |-> city, year |-> year, map1 |-> m1,
     histLayer |-> h, layers |-> ls]

NoCall == [called |-> FALSE, city |-> "", year |-> "", map1 |-> 0,
           histLayer |-> 0, layers |-> <<>>]

\* Whether the call would construct a new L.tileLayer (185).
CreatesLayer(h, city, year) == Truthy(LookupFolder(city, year)) /\ h = 0

\* The year labels a caller may pass: the catalog's, one no catalog has, the
\* empty value of a select without options, and the name of an inherited member.
YearLabels ==
    UNION {DOMAIN TILE_FOLDER_MAP[c] : c \in DOMAIN TILE_FOLDER_MAP}
        \cup {"1999", "", "constructor"}

(***************************************************************************)
(* View synchronisation (108-126).  The three operators thread the record   *)
(* s = [view, syncing, log, depth] through one synchronous call chain.      *)
(***************************************************************************)
Other(m) == 3 - m

LogEntry(op, from, to, v, animate) ==
    [op |-> op, from |-> from, to |-> to, center |-> v.center, zoom |-> v.zoom,
     animate |-> animate]

RECURSIVE syncView(_, _, _), setView(_, _, _, _), fire(_, _, _)

\* toMap.setView(center, zoom, {animate}): the widget takes the view and emits
\* 'zoom' (if the zoom changed) and 'move' before it returns.
setView(s, m, v, animate) ==
    LET events == IF v.zoom # s.view[m].zoom THEN <<"zoom", "move">> ELSE <<"move">>
        s1 == [s EXCEPT !.view[m] = v,
                        !.log = Append(@, LogEntry("setView", Other(m), m, v, animate))]
    IN fire(s1, m, events)

\* syncView with the guard tested but never set.
syncViewNoGuard(s, fromMap, toMap) ==
    IF s.syncing
    THEN [s EXCEPT !.log = Append(@, LogEntry("ignored", fromMap, toMap,
                                              s.view[fromMap], FALSE))]
    ELSE setView(s, toMap, s.view[fromMap], FALSE)

\* syncView that copies the center and leaves the zoom of toMap.
syncViewCenterOnly(s, fromMap, toMap) ==
    IF s.syncing
    THEN [s EXCEPT !.log = Append(@, LogEntry("ignored", fromMap, toMap,
                                              s.view[fromMap], FALSE))]
    ELSE LET s1 == [s EXCEPT !.syncing = TRUE]
             v == [center |-> s1.view[fromMap].center, zoom |-> s1.view[toMap].zoom]
             s2 == setView(s1, toMap, v, FALSE)
         IN [s2 EXCEPT !.syncing = FALSE]

\* syncView that sets the guard and never clears it.
syncViewNoClear(s, fromMap, toMap) ==
    IF s.syncing
    THEN [s EXCEPT !.log = Append(@, LogEntry("ignored", fromMap, toMap,
                                              s.view[fromMap], FALSE))]
    ELSE LET s1 == [s EXCEPT !.syncing = TRUE]
         IN setView(s1, toMap, s1.view[fromMap], FALSE)

syncView(s, fromMap, toMap) ==
    IF s.syncing
    THEN [s EXCEPT !.log = Append(@, LogEntry("ignored", fromMap, toMap,
                                              s.view[fromMap], FALSE))]
    ELSE LET s1 == [s EXCEPT !.syncing = TRUE]
             center == s1.view[fromMap].center
             zoom == s1.view[fromMap].zoom
             s2 == setView(s1, toMap, [center |-> center, zoom |-> zoom], FALSE)
         IN [s2 EXCEPT !.syncing = FALSE]

\* map.fire: the 'move zoom' listener of map m (125, 126) runs once per event,
\* as long as the call stack has room.
fire(s, m, events) ==
    IF events = <<>> \/ s.depth >= MaxCallDepth THEN s
    ELSE LET s1 == syncView([s EXCEPT !.depth = @ + 1], m, Other(m))
         IN fire([s1 EXCEPT !.depth = s.depth], m, Tail(events))

\* The views a gesture can leave a panel in.
Views(city) ==
    {[center |-> <<centerCoords[city][1] + d, centerCoords[city][2]>>, zoom |-> z] :
        d \in 0..MaxPan, z \in DefaultZoom..(DefaultZoom + MaxZoomIn)}

NoView == [center |-> <<>>, zoom |-> 0]

(***************************************************************************)
(* Cursor mirroring (128-152).                                              *)
(***************************************************************************)
NoElements == [i \in {} |-> 0]

\* x + 'px'
Px(x) == <<x, "px">>

\* A cleanup that leaves the indicators of a prior initialisation in place.
removeCursorsNone(els) == els

\* document.querySelectorAll('.cursor').forEach(el => el.remove()) (129).
removeCursors(els) ==
    [i \in {j \in DOMAIN els : els[j].className # "cursor"} |-> els[i]]

\* createCursor(mapEl) (131-136): a new div.cursor appended to mapEl.
createCursor(els, id, mapEl) ==
    els @@ (id :> [className |-> "cursor", parent |-> mapEl,
                   left |-> <<>>, top |-> <<>>])

\* element.style.left/top = ... on the element a global refers to.
SetPos(els, id, left, top) ==
    IF id \in DOMAIN els THEN [els EXCEPT ![id].left = left, ![id].top = top] ELSE els

\* updateCursors that gives cursor2 the client coordinates as they come.
updateCursorsClient(els, c1, c2, rect, clientX, clientY) ==
    LET x == clientX - rect.left
        y == clientY - rect.top
    IN SetPos(SetPos(els, c1, Px(x), Px(y)), c2, Px(clientX), Px(clientY))

updateCursors(els, c1, c2, rect, clientX, clientY) ==
    LET x == clientX - rect.left
        y == clientY - rect.top
    IN SetPos(SetPos(els, c1, Px(x), Px(y)), c2, Px(x), Px(y))

(***************************************************************************)
(* Fullscreen adapter (241-297).                                            *)
(***************************************************************************)
FsEventNames == {"fullscreenchange", "webkitfullscreenchange",
                 "mozfullscreenchange", "msfullscreenchange"}

FsElementProps == <<"fullscreenElement", "webkitFullscreenElement",
                    "mozFullScreenElement", "msFullscreenElement">>

ExitMethods == <<"exitFullscreen", "webkitExitFullscreen",
                 "mozCancelFullScreen", "msExitFullscreen">>

RequestMethods == <<"requestFullscreen", "webkitRequestFullscreen",
                    "mozRequestFullScreen", "msRequestFullscreen">>

Range(f) == {f[i] : i \in DOMAIN f}

\* An if / else-if chain over `order`: the first member that exists is called.
FirstAvailable(order, avail) ==
    LET hits == {i \in DOMAIN order : order[i] \in avail}
    IN IF hits = {} THEN <<>>
       ELSE <<order[CHOOSE i \in hits : \A j \in hits : i <= j]>>

\* The click handler (263-295): truthy are the document's fullscreen-element
\* properties that hold an element, docMethods and elMethods the methods that
\* exist on document and on the main container.
fullscreenClick(truthy, docMethods, elMethods) ==
    LET isFullscreen == \E i \in DOMAIN FsElementProps : FsElementProps[i] \in truthy
    IN IF isFullscreen
       THEN [clicked |-> TRUE, fullscreen |-> TRUE,
             calls |-> FirstAvailable(ExitMethods, docMethods), alerts |-> 0]
       ELSE LET c == FirstAvailable(RequestMethods, elMethods)
            IN [clicked |-> TRUE, fullscreen |-> FALSE, calls |-> c,
                alerts |-> IF c = <<>> THEN 1 ELSE 0]

NoClick == [clicked |-> FALSE, fullscreen |-> FALSE, calls |-> <<>>, alerts |-> 0]

(***************************************************************************)
(* State machine.                                                           *)
(***************************************************************************)
Init ==
    /\ phase = "unloaded"
    /\ currentCity = Undefined
    /\ hasSelect = FALSE
    /\ gen = 0
    /\ widgets = <<>>
    /\ view = [m \in 1..2 |-> NoView]
    /\ baseLayer = [m \in 1..2 |-> "none"]
    /\ histLayer = 0
    /\ layers = <<>>
    /\ syncing = FALSE
    /\ syncLog = <<>>
    /\ cursorEls = NoElements
    /\ cursor1 = 0
    /\ cursor2 = 0
    /\ nextEl = 0
    /\ lastPointer = <<>>
    /\ warned = 0
    /\ lastCall = NoCall
    /\ domLoaded = FALSE
    /\ fsWired = FALSE
    /\ fsNotified = 0
    /\ timers = 0
    /\ resized = [m \in 1..2 |-> 0]
    /\ lastClick = NoClick

\* The globals map1 and map2 after the g-th construction.
Map1(g) == 2 * g - 1
Map2(g) == 2 * g

\* L.map(container, options): a live widget on the container, no listeners yet.
NewMap(container) == [container |-> container, live |-> TRUE, listeners |-> {}]

\* map.on(types, fn): fn listens to every type named.
On(ws, id, types) == [ws EXCEPT ![id].listeners = @ \cup types]

\* A cleanup that removes map1 and leaves map2.
disposeMapsFirstOnly(ws, g) ==
    IF g > 0
    THEN [i \in DOMAIN ws |->
            IF i = Map1(g) THEN [ws[i] EXCEPT !.live = FALSE, !.listeners = {}]
            ELSE ws[i]]
    ELSE ws

\* if (map1) { map1.remove(); map2.remove(); } (52-55): remove() destroys the
\* widget and clears its listeners.
disposeMaps(ws, g) ==
    IF g > 0
    THEN [i \in DOMAIN ws |->
            IF i \in {Map1(g), Map2(g)}
            THEN [ws[i] EXCEPT !.live = FALSE, !.listeners = {}]
            ELSE ws[i]]
    ELSE ws

\* map.remove() on the maps of generation g: every layer they hold is detached.
RemoveMaps(ls, g) ==
    [i \in DOMAIN ls |->
        IF g > 0 /\ ls[i].map = g THEN [ls[i] EXCEPT !.map = 0] ELSE ls[i]]

\* initMaps(city, initialYear) (50-153).  setView of a center that is not a
\* coordinate throws, which ends the caller.
initMaps(city, initialYear) ==
    IF city \notin DOMAIN centerCoords
    THEN /\ layers' = RemoveMaps(layers, gen)
         /\ widgets' = Append(disposeMaps(widgets, gen), NewMap("map1"))
         /\ UNCHANGED <<gen, view, baseLayer, histLayer, syncing, syncLog,
                        cursorEls, cursor1, cursor2, nextEl, lastPointer, warned,
                        lastCall>>
    ELSE LET g == gen + 1
             r == updateHistoricalLayer(histLayer, RemoveMaps(layers, gen), g,
                                        city, initialYear)
             ws == Append(Append(disposeMaps(widgets, gen), NewMap("map1")),
                          NewMap("map2"))
             n == Len(ws)
         IN /\ gen' = g
            /\ widgets' = On(On(On(On(ws, n - 1, {"move", "zoom"}),
                                    n, {"move", "zoom"}),
                                 n - 1, {"mousemove"}),
                              n, {"mousemove"})
            /\ view' = [m \in 1..2 |->
                           [center |-> centerCoords[city], zoom |-> DefaultZoom]]
            /\ baseLayer' = [m \in 1..2 |->
                                IF m = 1 THEN "OpenStreetMap" ELSE "Satellite Imagery"]
            /\ histLayer' = r.histLayer
            /\ layers' = r.layers
            /\ warned' = r.warned
            /\ lastCall' = CallRecord(city, initialYear, g, histLayer,
                                      RemoveMaps(layers, gen))
            /\ syncing' = FALSE
            /\ syncLog' = <<>>
            /\ cursorEls' = createCursor(createCursor(removeCursors(cursorEls),
                                                      nextEl + 1, "map1"),
                                         nextEl + 2, "map2")
            /\ cursor1' = nextEl + 1
            /\ cursor2' = nextEl + 2
            /\ nextEl' = nextEl + 2
            /\ lastPointer' = <<>>

\* The top-level script (217-237) on a page at `path`, with or without a
\* mapYearSelect control whose value is `value`.
StartupOn(path, sel, value) ==
    /\ phase = "unloaded"
    /\ currentCity' = getCurrentCity(path)
    /\ hasSelect' = sel
    /\ initMaps(currentCity', IF sel THEN value ELSE DefaultYear)
    /\ phase' = IF currentCity' \in DOMAIN centerCoords THEN "ready" ELSE "aborted"
    /\ UNCHANGED fsVars

Startup ==
    /\ phase = "unloaded"
    /\ \E path \in Paths, sel \in BOOLEAN, value \in YearLabels :
        /\ sel = FALSE => value = ""
        /\ StartupOn(path, sel, value)

\* initMaps called again on the loaded page (the cleanup path, 52-55).
ReInitWith(year) ==
    /\ phase = "ready"
    /\ gen < MaxInits
    /\ CreatesLayer(histLayer, currentCity, year) => Len(layers) < MaxLayers
    /\ initMaps(currentCity, year)
    /\ UNCHANGED <<phase, currentCity, hasSelect>>
    /\ UNCHANGED fsVars

ReInit ==
    /\ phase = "ready"
    /\ \E year \in YearLabels : ReInitWith(year)

\* A change listener that rebuilds the maps for the selected year.
YearChangeViaInitMaps ==
    /\ phase = "ready"
    /\ hasSelect
    /\ gen < MaxInits
    /\ \E selectedYear \in YearLabels :
        /\ CreatesLayer(histLayer, currentCity, selectedYear) => Len(layers) < MaxLayers
        /\ initMaps(currentCity, selectedYear)
        /\ UNCHANGED <<phase, currentCity, hasSelect>>
        /\ UNCHANGED fsVars

\* The change listener of mapYearSelect (227-230).
YearChange ==
    /\ phase # "unloaded"
    /\ hasSelect
    /\ \E selectedYear \in YearLabels :
        /\ CreatesLayer(histLayer, currentCity, selectedYear) => Len(layers) < MaxLayers
        /\ LET r == updateHistoricalLayer(histLayer, layers, gen, currentCity,
                                          selectedYear)
           IN /\ histLayer' = r.histLayer
              /\ layers' = r.layers
              /\ warned' = r.warned
              /\ lastCall' = CallRecord(currentCity, selectedYear, gen, histLayer,
                                        layers)
        /\ UNCHANGED <<phase, currentCity, hasSelect>>
        /\ UNCHANGED mapVars
        /\ UNCHANGED cursorVars
        /\ UNCHANGED fsVars

\* A gesture leaves map m at view v and the widget emits one 'move' or 'zoom'
\* event; both names have the same listener (125, 126).
MapEvent ==
    /\ phase = "ready"
    /\ \E m \in 1..2, v \in Views(currentCity) :
        /\ LET s0 == [view |-> [view EXCEPT ![m] = v], syncing |-> syncing,
                      log |-> <<LogEntry("event", m, m, v, FALSE)>>, depth |-> 0]
               s1 == fire(s0, m, <<"move">>)
           IN /\ view' = s1.view
              /\ syncing' = s1.syncing
              /\ syncLog' = s1.log
        /\ UNCHANGED <<phase, currentCity, hasSelect, gen, widgets, baseLayer>>
        /\ UNCHANGED layerVars
        /\ UNCHANGED cursorVars
        /\ UNCHANGED fsVars

\* A 'mousemove' of the widget on map m (151, 152): the panel's rectangle has
\* its corner at (left, top) and the pointer is (dx, dy) inside it.
PointerMoveAt(m, left, top, dx, dy) ==
    /\ phase = "ready"
    /\ cursorEls' = updateCursors(cursorEls, cursor1, cursor2,
                                  [left |-> left, top |-> top],
                                  left + dx, top + dy)
    /\ lastPointer' = <<dx, dy>>
    /\ UNCHANGED <<phase, currentCity, hasSelect, cursor1, cursor2, nextEl>>
    /\ UNCHANGED mapVars
    /\ UNCHANGED layerVars
    /\ UNCHANGED fsVars

PointerMove ==
    /\ phase = "ready"
    /\ \E m \in 1..2, left \in 0..MaxOffset, top \in 0..MaxOffset,
       dx \in 0..MaxOffset, dy \in 0..MaxOffset :
        PointerMoveAt(m, left, top, dx, dy)

\* The layer picker of map2 (96-102) switches its base layer.
SelectBaseLayer ==
    \E name \in {"OpenStreetMap", "Satellite Imagery"} :
        /\ phase = "ready"
        /\ baseLayer[2] # name
        /\ baseLayer' = [baseLayer EXCEPT ![2] = name]
        /\ UNCHANGED <<phase, currentCity, hasSelect, gen, widgets, view, syncing,
                       syncLog>>
        /\ UNCHANGED layerVars
        /\ UNCHANGED cursorVars
        /\ UNCHANGED fsVars

\* The DOMContentLoaded listener (241-297), on a page with or without the
\* fullscreen button and the main element.  A script that threw before line
\* 241 has registered no listener.
DOMContentLoaded ==
    \E fullscreenButton \in BOOLEAN, mainContent \in BOOLEAN :
        /\ phase # "unloaded"
        /\ ~domLoaded
        /\ domLoaded' = TRUE
        /\ fsWired' = (phase = "ready" /\ fullscreenButton /\ mainContent)
        /\ UNCHANGED <<phase, currentCity, hasSelect, fsNotified, timers, resized,
                       lastClick>>
        /\ UNCHANGED mapVars
        /\ UNCHANGED layerVars
        /\ UNCHANGED cursorVars

\* The host delivers a fullscreen-change notification; handleFullscreenChange
\* (248-254), if registered, starts the 100 ms timer.
FullscreenChange ==
    \E name \in FsEventNames :
        /\ domLoaded
        /\ fsNotified < MaxFsEvents
        /\ fsNotified' = fsNotified + 1
        /\ timers' = IF fsWired THEN timers + 1 ELSE timers
        /\ UNCHANGED <<phase, currentCity, hasSelect, domLoaded, fsWired, resized,
                       lastClick>>
        /\ UNCHANGED mapVars
        /\ UNCHANGED layerVars
        /\ UNCHANGED cursorVars

\* The timer callback (250-253).
ResizeTimer ==
    /\ timers > 0
    /\ timers' = timers - 1
    /\ resized' = [m \in 1..2 |-> IF gen > 0 THEN resized[m] + 1 ELSE resized[m]]
    /\ UNCHANGED <<phase, currentCity, hasSelect, domLoaded, fsWired, fsNotified,
                   lastClick>>
    /\ UNCHANGED mapVars
    /\ UNCHANGED layerVars
    /\ UNCHANGED cursorVars

\* A click on the fullscreen button (263-295) in some host environment.
ToggleClick ==
    /\ fsWired
    /\ \E truthy \in SUBSET Range(FsElementProps) :
      \E methods \in SUBSET (IF truthy = {} THEN Range(RequestMethods)
                                              ELSE Range(ExitMethods)) :
        /\ lastClick' = fullscreenClick(truthy,
                                        methods \cap Range(ExitMethods),
                                        methods \cap Range(RequestMethods))
        /\ UNCHANGED <<phase, currentCity, hasSelect, domLoaded, fsWired, fsNotified,
                       timers, resized>>
        /\ UNCHANGED mapVars
        /\ UNCHANGED layerVars
        /\ UNCHANGED cursorVars

Next ==
    \/ Startup
    \/ ReInit
    \/ YearChange
    \/ MapEvent
    \/ PointerMove
    \/ SelectBaseLayer
    \/ DOMContentLoaded
    \/ FullscreenChange
    \/ ResizeTimer
    \/ ToggleClick

Spec == Init /\ [][Next]_vars

(***************************************************************************)
(* The components share no state beyond what initMaps sets, so each is      *)
(* checked with the actions that write its variables.                       *)
(***************************************************************************)
\* View synchronisation of the map pair.
SyncNext ==
    \/ Startup
    \/ ReInit
    \/ MapEvent
    \/ SelectBaseLayer

SyncSpec == Init /\ [][SyncNext]_vars

\* The historical layer switcher.
LayerNext ==
    \/ Startup
    \/ ReInit
    \/ YearChange

LayerSpec == Init /\ [][LayerNext]_vars

\* Cursor mirroring.
CursorNext ==
    \/ Startup
    \/ ReInit
    \/ PointerMove

CursorSpec == Init /\ [][CursorNext]_vars

\* The fullscreen adapter; the callback of a pending timer runs.
FsNext ==
    \/ Startup
    \/ DOMContentLoaded
    \/ FullscreenChange
    \/ ResizeTimer
    \/ ToggleClick

FsSpec == Init /\ [][FsNext]_vars /\ WF_vars(ResizeTimer)

\* The year selector next to re-initialisation and the layer picker of map2.
FrameNext ==
    \/ Startup
    \/ ReInit
    \/ YearChange
    \/ SelectBaseLayer

FrameSpec == Init /\ [][FrameNext]_vars

(***************************************************************************)
(* Properties.                                                              *)
(***************************************************************************)
\* The catalog holds a folder for (city, year): an own entry that is not null.
HasFolder(city, year) ==
    /\ city \in DOMAIN TILE_FOLDER_MAP
    /\ year \in DOMAIN TILE_FOLDER_MAP[city]
    /\ TILE_FOLDER_MAP[city][year] # Null

\* The entries of the log of the last map event with operation op.
LogOps(op) == {i \in DOMAIN syncLog : syncLog[i].op = op}

\* C1: once a move/zoom event on panel A with view (C, Z) has been handled,
\* panel B holds exactly (C, Z); syncView made exactly one setView, onto B,
\* with (C, Z) and animate: false; and the events B emitted for that setView
\* were ignored by the guard, so nothing was set back onto A.
C1_OneCopyNoEcho ==
    syncLog # <<>> =>
        LET e == syncLog[1]
            b == IF e.from = 1 THEN 2 ELSE 1
        IN /\ view[b] = [center |-> e.center, zoom |-> e.zoom]
           /\ Cardinality(LogOps("setView")) = 1
           /\ \A i \in LogOps("setView") :
                /\ syncLog[i].to = b
                /\ syncLog[i].center = e.center
                /\ syncLog[i].zoom = e.zoom
                /\ syncLog[i].animate = FALSE
           /\ LogOps("ignored") # {}
           /\ \A i \in LogOps("ignored") : syncLog[i].from = b /\ syncLog[i].to = e.from

\* An event on map2 that changed the zoom was copied onto map1, and the 'zoom'
\* and 'move' events map1 emitted were both ignored.
C1_Witness ==
    /\ syncLog # <<>>
    /\ syncLog[1].from = 2
    /\ syncLog[1].zoom # DefaultZoom
    /\ view[1].zoom = syncLog[1].zoom
    /\ Cardinality(LogOps("ignored")) = 2

\* C2: whenever no handler runs (every state of the model) and the maps
\* exist, map1 and map2 hold the same (center, zoom).
C2_ViewsEqualWhenIdle ==
    gen > 0 => view[1] = view[2]

\* After a second initMaps, a gesture on map1 moved both panels off the
\* default view, and the guard dropped the event map2 emitted.
C2_Witness ==
    /\ phase = "ready"
    /\ gen = 2
    /\ syncLog # <<>>
    /\ syncLog[1].from = 1
    /\ LogOps("ignored") # {}
    /\ view[2].zoom # DefaultZoom
    /\ view[2].center # centerCoords[currentCity]
    /\ view[1] = view[2]

\* C3: a call with a (city, year) for which the catalog holds no folder ends
\* with histLayer null, and a layer that was Present at entry is detached.
C3_AbsentLookupEndsAbsent ==
    (lastCall.called /\ ~HasFolder(lastCall.city, lastCall.year)) =>
        /\ histLayer = 0
        /\ lastCall.histLayer # 0 => layers[lastCall.histLayer].map = 0

C5_SwitchInPlace ==
    (lastCall.called /\ lastCall.histLayer # 0
        /\ HasFolder(lastCall.city, lastCall.year)) =>
        /\ histLayer = lastCall.histLayer
        /\ Len(layers) = Len(lastCall.layers)
        /\ \A i \in DOMAIN layers :
             /\ layers[i].map = lastCall.layers[i].map
             /\ i # histLayer => layers[i] = lastCall.layers[i]

\* A switch between two years with folders on a layer attached to map1.
C5_Witness ==
    /\ lastCall.called
    /\ lastCall.histLayer # 0
    /\ HasFolder(lastCall.city, lastCall.year)
    /\ lastCall.layers[lastCall.histLayer].map = gen
    /\ layers[histLayer].map = gen
    /\ layers[histLayer].url # lastCall.layers[lastCall.histLayer].url

\* The positions of the two cursor indicators.
CursorPos(id) == <<cursorEls[id].left, cursorEls[id].top>>

\* C6: after a pointer move at offset (x, y) from the corner of either
\* panel both indicators have left = x px and top = y px; and in every state
\* the two indicators hold the same position.
C6_CursorsMirror ==
    /\ cursor1 # 0 => CursorPos(cursor1) = CursorPos(cursor2)
    /\ lastPointer # <<>> =>
         /\ CursorPos(cursor1) = <<(<<lastPointer[1], "px">>), (<<lastPointer[2], "px">>)>>
         /\ CursorPos(cursor2) = <<(<<lastPointer[1], "px">>), (<<lastPointer[2], "px">>)>>

\* Both indicators stand at (1px, 0px) in their own panels.
C6_Witness ==
    /\ cursor1 # 0
    /\ lastPointer = <<1, 0>>
    /\ cursorEls[cursor1].parent = "map1"
    /\ cursorEls[cursor2].parent = "map2"
    /\ CursorPos(cursor1) = <<(<<1, "px">>), (<<0, "px">>)>>
    /\ CursorPos(cursor2) = <<(<<1, "px">>), (<<0, "px">>)>>

\* C7: the resolver's result is one of the four city keys: the names vienna,
\* dresden, enschede and munich resolve to themselves, and index, the empty
\* name and every other page name resolve to munich.
C7_ResolverTotal ==
    [][\A path \in Paths, sel \in BOOLEAN, value \in YearLabels :
          StartupOn(path, sel, value) =>
              LET name == Key(ReplaceFirst(LastSegment(path), ".html"))
              IN /\ currentCity' \in {"munich", "vienna", "enschede", "dresden"}
                 /\ name \in {"munich", "vienna", "enschede", "dresden"}
                        => currentCity' = name
                 /\ name \notin {"munich", "vienna", "enschede", "dresden"}
                        => currentCity' = "munich"]_vars

\* C8: every layer attached to a map is the one histLayer refers to and sits
\* on the current map1, so at most one is attached; a call creates a layer
\* only when the handle was Absent at entry; and a layer whose handle a call
\* cleared is detached.
C8_AtMostOneAttached ==
    /\ \A i \in DOMAIN layers :
         layers[i].map # 0 => (i = histLayer /\ layers[i].map = gen)
    /\ Cardinality({i \in DOMAIN layers : layers[i].map # 0}) <= 1
    /\ (lastCall.called /\ Len(layers) > Len(lastCall.layers))
           => lastCall.histLayer = 0
    /\ (lastCall.called /\ lastCall.histLayer # 0 /\ histLayer = 0)
           => layers[lastCall.histLayer].map = 0

\* A first layer was discarded and detached, a second one is attached.
C8_Witness ==
    /\ Len(layers) = 2
    /\ histLayer = 2
    /\ layers[1].map = 0
    /\ layers[2].map = gen

\* C9: on a page whose script is running, every fullscreen-change
\* notification delivered so far has its resize pending on the timer or done
\* on both maps, whatever page elements are present.  (With the timer's
\* fairness this is: every notification is eventually followed by
\* invalidateSize on both maps.)
C9_EveryNotificationResizes ==
    (phase = "ready" /\ domLoaded) =>
        \A m \in 1..2 : fsNotified = timers + resized[m]

\* C10: every click on the fullscreen button produces exactly one request
\* (an exit request when a fullscreen element is reported, an enter request
\* otherwise) or, when no method exists, one notice.
C10_OneRequestOrNotice ==
    lastClick.clicked =>
        /\ Len(lastClick.calls) + lastClick.alerts = 1
        /\ \A i \in DOMAIN lastClick.calls :
             lastClick.calls[i] \in
                 (IF lastClick.fullscreen THEN Range(ExitMethods)
                                          ELSE Range(RequestMethods))

\* C11: the guard is false in every state between handlers, and a gesture on
\* either panel, whatever events came before it, is not ignored by the guard:
\* the first thing its listener does is the copy onto the other panel.
C11_GuardClearWhenIdle ==
    /\ syncing = FALSE
    /\ syncLog # <<>> =>
         /\ Len(syncLog) >= 2
         /\ syncLog[2].op = "setView"
         /\ syncLog[2].to = Other(syncLog[1].from)

\* A gesture on map2 back to the default zoom, after an earlier gesture had
\* zoomed both panels in, was copied onto map1 and the guard is clear again.
C11_Witness ==
    /\ syncing = FALSE
    /\ syncLog # <<>>
    /\ syncLog[1].from = 2
    /\ syncLog[1].zoom = DefaultZoom
    /\ Cardinality(LogOps("ignored")) = 2
    /\ syncLog[2].op = "setView"
    /\ view[1].zoom = DefaultZoom

\* C12: whenever histLayer is non-null the layer it refers to is attached to
\* the current map1; and when the last updateHistoricalLayer call (the one
\* initMaps makes included) had a (city, year) whose catalog entry is a
\* folder, the layer is Present and attached to the current map1.
C12_HistLayerOnCurrentMap ==
    /\ histLayer # 0 => layers[histLayer].map = gen
    /\ (lastCall.called /\ HasFolder(lastCall.city, lastCall.year)) =>
         /\ histLayer # 0
         /\ layers[histLayer].map = gen

\* C13: a call of updateHistoricalLayer from the year selector, for every
\* (city, year), leaves the base layer of map1, both views, the layer of
\* map2, the cursor indicators, the guard, the maps and the city key as they
\* were; and when it ends Absent on existing maps the base layer of map1 is
\* still the OpenStreetMap layer.
C13_SwitcherFrame ==
    [][YearChange =>
          /\ UNCHANGED <<baseLayer, view, gen, widgets, syncing>>
          /\ UNCHANGED <<cursorEls, cursor1, cursor2>>
          /\ UNCHANGED <<currentCity, phase>>
          /\ (gen' > 0 /\ histLayer' = 0) => baseLayer'[1] = "OpenStreetMap"]_vars

\* On the second map pair, with map2 switched to another base layer, the
\* year selector discarded a layer that was attached to map1: the maps, the
\* base layers and the cursor indicators of that pair are as they were.
C13_Witness ==
    /\ gen = 2
    /\ lastCall.called
    /\ lastCall.histLayer # 0
    /\ lastCall.layers[lastCall.histLayer].map = gen
    /\ histLayer = 0
    /\ baseLayer = <<"OpenStreetMap", "OpenStreetMap">>
    /\ view[1] = view[2]
    /\ cursor1 = 3
    /\ cursorEls[cursor1].parent = "map1"
    /\ cursorEls[cursor2].parent = "map2"

\* C14: a call with a (city, year) for which the catalog holds no folder
\* emits exactly one warning and, when the layer was Absent at entry, leaves
\* the layer state as it was; a call with a year that has a folder, made when
\* the layer is Absent, ends Present on a newly created layer that is
\* attached to map1 and bound to that year's template.
C14_MissingImageryRecoverable ==
    /\ (lastCall.called /\ ~HasFolder(lastCall.city, lastCall.year)) =>
         /\ warned = 1
         /\ lastCall.histLayer = 0 => (histLayer = 0 /\ layers = lastCall.layers)
    /\ (lastCall.called /\ HasFolder(lastCall.city, lastCall.year)
            /\ lastCall.histLayer = 0) =>
         /\ histLayer = Len(lastCall.layers) + 1
         /\ Len(layers) = Len(lastCall.layers) + 1
         /\ layers[histLayer].map = gen
         /\ layers[histLayer].url =
                <<"tiles/", TILE_FOLDER_MAP[lastCall.city][lastCall.year],
                  "/{z}/{x}/{y}.png">>

\* C15: after any number of completed initMaps calls the document holds
\* exactly two cursor indicators, one in the container of each panel, and
\* cursor1 and cursor2 refer to them; both were created by the latest call,
\* so none is left from a prior initialisation.
C15_TwoFreshCursors ==
    gen > 0 =>
        /\ Cardinality(DOMAIN cursorEls) = 2
        /\ DOMAIN cursorEls = {cursor1, cursor2}
        /\ \A i \in DOMAIN cursorEls : cursorEls[i].className = "cursor"
        /\ cursorEls[cursor1].parent = "map1"
        /\ cursorEls[cursor2].parent = "map2"
        /\ cursor1 = 2 * gen - 1
        /\ cursor2 = 2 * gen

\* A second initMaps removed the first pair of indicators and left the third
\* and fourth element, not yet placed.
C15_Witness ==
    /\ gen = 2
    /\ nextEl = 4
    /\ DOMAIN cursorEls = {3, 4}
    /\ cursor1 = 3
    /\ cursor2 = 4
    /\ cursorEls[3].left = <<>>
    /\ lastPointer = <<>>

\* The widgets that have not been removed.
LiveMaps == {i \in DOMAIN widgets : widgets[i].live}

\* C16: the first initMaps disposes nothing and completes; every later one
\* disposes both maps of the previous pair; so after any number of completed
\* initMaps calls exactly two widgets are live, map1 on #map1 and map2 on
\* #map2, they carry the sync and the cursor listeners, and no disposed
\* widget carries a listener.
C16_TwoLiveMaps ==
    gen > 0 =>
        /\ phase = "ready"
        /\ Len(widgets) = 2 * gen
        /\ LiveMaps = {Map1(gen), Map2(gen)}
        /\ Cardinality(LiveMaps) = 2
        /\ widgets[Map1(gen)].container = "map1"
        /\ widgets[Map2(gen)].container = "map2"
        /\ \A i \in DOMAIN widgets :
             widgets[i].listeners =
                 IF i \in LiveMaps THEN {"move", "zoom", "mousemove"} ELSE {}
        /\ gen = 1 => \A i \in DOMAIN widgets : widgets[i].live

\* A second initMaps disposed the first pair and built the second.
C16_Witness ==
    /\ gen = 2
    /\ Len(widgets) = 4
    /\ ~widgets[1].live
    /\ ~widgets[2].live
    /\ widgets[1].listeners = {}
    /\ widgets[3].live
    /\ widgets[4].live
    /\ widgets[4].listeners = {"move", "zoom", "mousemove"}

====
